---- MODULE Spec2Model ----
(***************************************************************************)
(* The database bootstrap handler of the repository, in its four variants  *)
(* (bootstrap.ts, bootstrap_v2.ts, bootstrap_after_pr.ts and               *)
(* PT_bootstrap_v2.ts), as one state machine.  A run resolves the secrets, *)
(* then executes its phases in order; a phase is                           *)
(*     await conn.connect(); try { statements } finally { await conn.end() }*)
(* The secret store, the pg driver and the PostgreSQL catalog are the      *)
(* environment: a lookup, connect(), query() and end() may each throw.     *)
(***************************************************************************)
EXTENDS Naturals, Sequences, FiniteSets

VARIABLES
    variant,        \* which source file's handler runs
    env,            \* cleanEnv(process.env, validators())
    secrets,        \* the secret store: what each lookup yields
    catalog,        \* the PostgreSQL catalog: databases and roles that exist
    pc,             \* position of the handler: [stage, phase, step]
    mainSecret,     \* const mainSecret
    serviceSecret,  \* const serviceSecret
    cdcUserSecret,  \* cdcUserSecret
    exists,         \* rows[0].exists of the last existence check
    lookups,        \* history: secretClient.send calls, in order
    calls,          \* history: connect()/end() calls on the pg clients, in order
    log,            \* history: console.log entries, in order
    issued,         \* history: connection.query calls, in order
    error,          \* the error in flight or thrown to the caller
    result,         \* what the handler returned
    previous,       \* the earlier invocations of the handler: how each ended
    other           \* a second invocation running at the same time: where its
                    \* admin phase is

vars == <<variant, env, secrets, catalog, pc, mainSecret, serviceSecret,
          cdcUserSecret, exists, lookups, calls, log, issued, error, result,
          previous, other>>

----------------------------------------------------------------------------
(* Values.  A name is a sequence of tokens; the token "_user" is the only  *)
(* place the text "_user" occurs, so String.replace('_user', '') is the    *)
(* removal of the first such token.                                        *)

Undefined == <<"#undefined">>       \* the JavaScript value undefined
Unbound   == <<"#unbound">>         \* an identifier no declaration binds
NoError   == "none"

Variants == {"bootstrap", "bootstrap_v2", "bootstrap_after_pr", "PT_bootstrap_v2"}

MasterUsername  == <<"admin", "_user">>
MasterPassword  == <<"admin_password">>
ServiceUsernames == {<<"myapp", "_user">>, <<"svc">>, <<"etl", "_user", "_ro">>}
ServicePassword == <<"myapp_password">>
CdcUsername     == <<"cdc", "_user">>
CdcPassword     == <<"cdc_password">>
DatabaseNames   == {Undefined, <<"app_database">>}
SchemaNames     == {Undefined, <<"app_schema">>}

\* What a lookup of a required secret can yield.
RequiredKinds == {"valid", "throw", "badjson"}
\* What the lookup of the CDC secret can yield: the call throws, SecretString
\* is undefined, '', not JSON, '{}', or a {username, password} object.
CdcKinds == {"valid", "throw", "undefined", "empty", "badjson", "nokeys"}

RECURSIVE ReplaceUser(_)
\* s.replace('_user', ''): the first occurrence only, wherever it is.
ReplaceUser(s) ==
    IF s = <<>> THEN <<>>
    ELSE IF Head(s) = "_user" THEN Tail(s)
    ELSE <<Head(s)>> \o ReplaceUser(Tail(s))

\* a ?? b
Coalesce(a, b) == IF a = Undefined THEN b ELSE a

\* Boolean(x) for the values of the model
Truthy(x) == x # Undefined /\ x # <<>>

\* `${x}` in a template literal
Interp(x) == IF x = Undefined THEN <<"undefined">> ELSE x

Stmt(op, args) == [op |-> op, args |-> args]
Step(kind, stmt) == [kind |-> kind, stmt |-> stmt]

----------------------------------------------------------------------------
(* The handler's locals after the secrets are resolved.                    *)

\* const { username, password } = serviceSecret; PT_bootstrap_v2.ts has no
\* such declaration, and nothing else binds the two identifiers it uses.
username == IF variant = "PT_bootstrap_v2" THEN Unbound ELSE serviceSecret.username
password == IF variant = "PT_bootstrap_v2" THEN Unbound ELSE serviceSecret.password

\* the default taken from the username as it is
DatabaseIsUsername == Coalesce(env.APP_DATABASE_NAME, serviceSecret.username)

\* const database = env.APP_DATABASE_NAME ?? serviceSecret.username.replace('_user', '')
\* const schema = env.APP_SCHEMA_NAME ?? serviceSecret.username
database == Coalesce(env.APP_DATABASE_NAME, ReplaceUser(serviceSecret.username))
schema   == Coalesce(env.APP_SCHEMA_NAME, serviceSecret.username)

\* bootstrap.ts reassigns username, password, database and schema from the
\* CDC secret before its second admin phase.
cdcDatabase == Coalesce(env.APP_DATABASE_NAME, ReplaceUser(cdcUserSecret.username))
cdcSchema   == Coalesce(env.APP_SCHEMA_NAME, cdcUserSecret.username)

----------------------------------------------------------------------------
(* The statement lists.                                                    *)

\* the role provisioned before the database
RoleBeforeDatabase(db, user, pw) == <<
    Step("check",  Stmt("SelectRoleExists", <<Interp(user)>>)),
    Step("create", Stmt("CreateUser", <<Interp(user), Interp(pw)>>)),
    Step("check",  Stmt("SelectDatabaseExists", <<Interp(db)>>)),
    Step("create", Stmt("CreateDatabase", <<Interp(db)>>)) >>

\* database check/creation, then role check/creation
AdminProvision(db, user, pw) == <<
    Step("check",  Stmt("SelectDatabaseExists", <<Interp(db)>>)),
    Step("create", Stmt("CreateDatabase", <<Interp(db)>>)),
    Step("check",  Stmt("SelectRoleExists", <<Interp(user)>>)),
    Step("create", Stmt("CreateUser", <<Interp(user), Interp(pw)>>)) >>

\* the role brought in line with the secret: created, or its password reset
RoleProvisionRotating(user, pw) == <<
    Step("check",  Stmt("SelectRoleExists", <<Interp(user)>>)),
    Step("create", Stmt("CreateUser", <<Interp(user), Interp(pw)>>)),
    Step("stmt",   Stmt("AlterUserPassword", <<Interp(user), Interp(pw)>>)) >>

\* role check/creation alone
RoleProvision(user, pw) == <<
    Step("check",  Stmt("SelectRoleExists", <<Interp(user)>>)),
    Step("create", Stmt("CreateUser", <<Interp(user), Interp(pw)>>)) >>

CreateSchemaStep(sch) == Step("stmt", Stmt("CreateSchema", <<Interp(sch)>>))

Extensions(sch, db, user) == <<
    Step("stmt", Stmt("CreateExtensionPgTrgm", <<Interp(sch)>>)),
    Step("stmt", Stmt("CreateExtensionIntarray", <<Interp(sch)>>)),
    Step("stmt", Stmt("GrantConnect", <<Interp(db), Interp(user)>>)),
    Step("stmt", Stmt("GrantCreate", <<Interp(db), Interp(user)>>)) >>

\* every grant to the role first, then the two revocations, then the owner
OwnershipGrantsFirst(sch, db, user) == <<
    Step("stmt", Stmt("GrantUsageCreateSchema", <<Interp(sch), Interp(user)>>)),
    Step("stmt", Stmt("AlterDefaultPrivileges", <<Interp(sch), Interp(user)>>)),
    Step("stmt", Stmt("GrantAllPrivileges", <<Interp(db), Interp(user)>>)),
    Step("stmt", Stmt("RevokeCreatePublic", <<>>)),
    Step("stmt", Stmt("RevokeAllPublic", <<Interp(db)>>)),
    Step("stmt", Stmt("AlterDatabaseOwner", <<Interp(db), Interp(user)>>)) >>

\* the revocations from PUBLIC, the schema grants, the database grant, the owner
Ownership(sch, db, user) == <<
    Step("stmt", Stmt("RevokeCreatePublic", <<>>)),
    Step("stmt", Stmt("RevokeAllPublic", <<Interp(db)>>)),
    Step("stmt", Stmt("GrantUsageCreateSchema", <<Interp(sch), Interp(user)>>)),
    Step("stmt", Stmt("AlterDefaultPrivileges", <<Interp(sch), Interp(user)>>)),
    Step("stmt", Stmt("GrantAllPrivileges", <<Interp(db), Interp(user)>>)),
    Step("stmt", Stmt("AlterDatabaseOwner", <<Interp(db), Interp(user)>>)) >>

\* the service grants: bootstrap.ts and PT_bootstrap_v2.ts create the schema
\* twice, bootstrap_v2.ts only first, bootstrap_after_pr.ts only in the middle
ServiceGrants(sch, db, user) ==
    (IF variant = "bootstrap_after_pr" THEN <<>> ELSE <<CreateSchemaStep(sch)>>)
    \o Extensions(sch, db, user)
    \o (IF variant = "bootstrap_v2" THEN <<>> ELSE <<CreateSchemaStep(sch)>>)
    \o Ownership(sch, db, user)

\* the CDC grants of bootstrap_after_pr.ts and PT_bootstrap_v2.ts
CdcGrants(sch, db, user) == <<
    Step("stmt", Stmt("GrantConnect", <<Interp(db), Interp(user)>>)),
    Step("stmt", Stmt("GrantSelectAllTables", <<Interp(sch), Interp(user)>>)),
    Step("stmt", Stmt("GrantRdsReplicationSuperuser", <<Interp(user)>>)),
    Step("stmt", Stmt("CreatePublication", <<>>)) >>

\* the CDC grants of bootstrap_v2.ts
CdcGrantsV2(db, user) == <<
    Step("stmt", Stmt("GrantConnect", <<Interp(db), Interp(user)>>)),
    Step("stmt", Stmt("GrantRdsReplication", <<Interp(user)>>)) >>

----------------------------------------------------------------------------
(* The phases of each variant: which client, how it was constructed,       *)
(* whether the phase is entered, whether evaluating the code in front of   *)
(* its connect() throws, and the statements inside its try block.          *)

Phase(handle, db, user, pw, runs, throws, body) ==
    [handle |-> handle, database |-> db, user |-> user, password |-> pw,
     runs |-> runs, throws |-> throws, body |-> body]

AdminPhase(handle, runs, throws, body) ==
    Phase(handle, Undefined, mainSecret.username, mainSecret.password, runs, throws, body)

DbPhase(handle, db, runs, body) ==
    Phase(handle, db, mainSecret.username, mainSecret.password, runs, FALSE, body)

\* if (cdcUserSecret?.username && cdcUserSecret?.password)
CdcEnabledPT == Truthy(cdcUserSecret.username) /\ Truthy(cdcUserSecret.password)

\* the CDC block entered without a test of the secret
CdcAlwaysEnabled == TRUE

\* if (cdcUserSecret)
CdcEnabledAfterPr == cdcUserSecret.defined

Phases_bootstrap == <<
    AdminPhase("mainConn", TRUE, FALSE, AdminProvision(database, username, password)),
    DbPhase("serviceConn", database, TRUE, ServiceGrants(schema, database, username)),
    \* cdcUserSecret.username.replace(...) is evaluated when APP_DATABASE_NAME is unset
    AdminPhase("mainConn", TRUE,
               env.APP_DATABASE_NAME = Undefined /\ cdcUserSecret.username = Undefined,
               AdminProvision(cdcDatabase, cdcUserSecret.username, cdcUserSecret.password)),
    Phase("cdcConn", database, cdcUserSecret.username, cdcUserSecret.password, TRUE, FALSE,
          ServiceGrants(cdcSchema, cdcDatabase, cdcUserSecret.username)
          \o <<Step("stmt", Stmt("AlterUserReplication", <<Interp(cdcUserSecret.username)>>))>>) >>

Phases_bootstrap_v2 == <<
    AdminPhase("mainConn", TRUE, FALSE, AdminProvision(database, username, password)),
    DbPhase("serviceConn", database, TRUE, ServiceGrants(schema, database, username)),
    AdminPhase("adminConn", TRUE, FALSE,
               RoleProvision(cdcUserSecret.username, cdcUserSecret.password)),
    DbPhase("sameDbConn", database, TRUE, CdcGrantsV2(database, cdcUserSecret.username)) >>

\* the CDC role provisioned on the first admin connection, no second one
Phases_single_admin == <<
    AdminPhase("mainConn", TRUE, FALSE,
               AdminProvision(database, username, password)
               \o (IF CdcEnabledAfterPr
                   THEN RoleProvision(cdcUserSecret.username, cdcUserSecret.password)
                   ELSE <<>>)),
    DbPhase("serviceConn", database, TRUE, ServiceGrants(schema, database, username)),
    AdminPhase("adminConn", FALSE, FALSE, <<>>),
    DbPhase("cdcDbConn", database, CdcEnabledAfterPr,
            CdcGrants(schema, database, cdcUserSecret.username)) >>

Phases_bootstrap_after_pr == <<
    AdminPhase("mainConn", TRUE, FALSE, AdminProvision(database, username, password)),
    DbPhase("serviceConn", database, TRUE, ServiceGrants(schema, database, username)),
    AdminPhase("adminConn", CdcEnabledAfterPr, FALSE,
               RoleProvision(cdcUserSecret.username, cdcUserSecret.password)),
    DbPhase("cdcDbConn", database, CdcEnabledAfterPr,
            CdcGrants(schema, database, cdcUserSecret.username)) >>

Phases_PT_bootstrap_v2 == <<
    AdminPhase("mainConn", TRUE, FALSE,
               AdminProvision(database, username, password)
               \o (IF CdcEnabledPT
                   THEN RoleProvision(cdcUserSecret.username, cdcUserSecret.password)
                   ELSE <<>>)),
    DbPhase("serviceConn", database, TRUE, ServiceGrants(schema, database, username)),
    DbPhase("cdcDbConn", database, CdcEnabledPT,
            CdcGrants(schema, database, cdcUserSecret.username)) >>

Phases ==
    CASE variant = "bootstrap"          -> Phases_bootstrap
      [] variant = "bootstrap_v2"       -> Phases_bootstrap_v2
      [] variant = "bootstrap_after_pr" -> Phases_bootstrap_after_pr
      [] variant = "PT_bootstrap_v2"    -> Phases_PT_bootstrap_v2

----------------------------------------------------------------------------
(* Secrets.                                                                *)

NoSecret == [username |-> Undefined, password |-> Undefined, defined |-> FALSE]

\* JSON.parse of a payload that parses: '{}' or {username, password}
Parsed(kind, user, pw) ==
    IF kind = "valid" THEN [username |-> user, password |-> pw, defined |-> TRUE]
    ELSE IF kind = "nokeys" THEN [username |-> Undefined, password |-> Undefined, defined |-> TRUE]
    ELSE NoSecret

\* a secret step wrapped in a catch-all: nothing it does throws
SecretNeverThrows(kind) == NoError

\* JSON.parse((await secretClient.send(...)).SecretString!): the lookup throws,
\* or JSON.parse throws on undefined, '' and malformed text
RequiredSecretError(kind) ==
    CASE kind = "throw" -> "LookupError"
      [] kind \in {"undefined", "empty", "badjson"} -> "SyntaxError"
      [] OTHER -> NoError

\* the CDC lookup wrapped in a catch: a failed lookup is taken as no secret
LookupFailureSkipsCdc(kind) == IF kind = "badjson" THEN "SyntaxError" ELSE NoError

\* const cdcRaw = (await secretClient.send(...)).SecretString;
\* if (cdcRaw) cdcUserSecret = JSON.parse(cdcRaw);
OptionalSecretError(kind) ==
    CASE kind = "throw" -> "LookupError"
      [] kind = "badjson" -> "SyntaxError"
      [] OTHER -> NoError

\* bootstrap.ts and bootstrap_v2.ts parse the CDC secret like the other two
CdcRequired == variant \in {"bootstrap", "bootstrap_v2"}

\* What the CDC lookup yields; a lookup with SecretId undefined is rejected.
CdcKind == IF env.CDC_USER_SECRET = Undefined THEN "throw" ELSE secrets.cdc

----------------------------------------------------------------------------
(* The PostgreSQL catalog.                                                 *)

\* rows[0].exists of SELECT exists(...)
Answer(cat, stmt) ==
    CASE stmt.op = "SelectDatabaseExists" -> stmt.args[1] \in cat.dbs
      [] stmt.op = "SelectRoleExists"     -> stmt.args[1] \in cat.roles
      [] OTHER -> FALSE

\* CREATE DATABASE / CREATE USER of a name the catalog holds: PostgreSQL
\* rejects the statement ("already exists")
Duplicate(cat, stmt) ==
    \/ stmt.op = "CreateDatabase" /\ stmt.args[1] \in cat.dbs
    \/ stmt.op = "CreateUser" /\ stmt.args[1] \in cat.roles

\* the second invocation before its first statement
OtherIdle == [step |-> 1, exists |-> FALSE, raced |-> FALSE, stopped |-> FALSE]

\* the catalog after a statement that succeeded
Effect(cat, stmt) ==
    CASE stmt.op = "CreateDatabase" -> [cat EXCEPT !.dbs = @ \cup {stmt.args[1]}]
      [] stmt.op = "CreateUser"     -> [cat EXCEPT !.roles = @ \cup {stmt.args[1]}]
      [] OTHER -> cat

\* the statements of a run in one transaction: a failure undoes the creations
RollbackOnFailure(cat, done) ==
    [dbs   |-> cat.dbs \ {done[k].stmt.args[1] : k \in {j \in 1..Len(done) :
                  done[j].ok /\ done[j].stmt.op = "CreateDatabase"}},
     roles |-> cat.roles \ {done[k].stmt.args[1] : k \in {j \in 1..Len(done) :
                  done[j].ok /\ done[j].stmt.op = "CreateUser"}}]

\* the catalog after a statement that threw, done being the statements issued
\* before it: every query() is its own transaction, there is no BEGIN and no
\* ROLLBACK, and no catch block issues anything
AfterFailure(cat, done) == cat

----------------------------------------------------------------------------
(* Control flow.                                                           *)

At(stage, phase, step) == [stage |-> stage, phase |-> phase, step |-> step]

Range(s) == {s[i] : i \in 1..Len(s)}

RECURSIVE NextPhase(_)
\* the next phase that is entered, from phase i on; the return statement after the last
NextPhase(i) ==
    IF i > Len(Phases) THEN At("return", i, 0)
    ELSE IF Phases[i].runs THEN At("connect", i, 0)
    ELSE NextPhase(i + 1)

\* the creation issued whatever the check returned
AlwaysCreate(ex) == TRUE

\* if (!databaseExists), if (!userExists), if (!cdcUserExists)
ShouldCreate(ex) == ex # TRUE

\* an identity found existing taken as "nothing left to do": the rest of the
\* phase is skipped
DoneWhenExists(i, j, ex) ==
    LET body == Phases[i].body
    IN  IF body[j].kind = "check" /\ ex = TRUE THEN At("finally", i, j)
        ELSE IF j + 1 > Len(body) THEN At("finally", i, j)
        ELSE At("body", i, j + 1)

\* where the handler is after statement j of phase i completed with rows[0].exists = ex
AfterStep(i, j, ex) ==
    LET body == Phases[i].body
        k == IF j + 1 <= Len(body) /\ body[j + 1].kind = "create" /\ ~ShouldCreate(ex)
             THEN j + 2 ELSE j + 1
    IN  IF k > Len(body) THEN At("finally", i, j) ELSE At("body", i, k)

\* a try block without finally: the error leaves the handler at once
ThrowWithoutFinally(i, j) == At("failed", i, j)

\* connect() placed inside the try block: its failure reaches the finally block
ConnectInsideTry(i) == At("finally", i, 0)

\* await conn.connect() stands in front of the try block: its failure leaves
\* the handler at once
OnConnectFailure(i) == At("failed", i, 0)

\* the error of a statement caught around the statement: the next one follows
ContinueAfterThrow(i, j) ==
    IF j < Len(Phases[i].body) THEN At("body", i, j + 1) ELSE At("finally", i, j)

\* a throw inside the try block: the finally block runs
OnThrow(i, j) == At("finally", i, j)

\* end() forgotten on the success path: the next phase follows the try block
CompleteWithoutEnd(i, j) == NextPhase(i + 1)

\* the try block completed: the finally block runs
OnComplete(i, j) == At("finally", i, j)

NoMessage == [form |-> "none", database |-> <<>>, users |-> <<>>]
NoResult  == [returned |-> FALSE, message |-> NoMessage]
SkipMessage == [form |-> "CDC_USER_SECRET not set; skipping CDC user/publication setup.",
                database |-> <<>>, users |-> <<>>]

\* a message that tells whether this invocation created anything
ResultReportsCreation ==
    [returned |-> TRUE,
     message |-> [form |-> IF \E k \in 1..Len(issued) :
                                 issued[k].stmt.op \in {"CreateDatabase", "CreateUser"}
                           THEN "Database '<db>' was created."
                           ELSE "Database '<db>' already exists.",
                  database |-> Interp(database), users |-> <<>>]]

\* the value the handler returns
Result ==
    CASE variant = "bootstrap" ->
           [returned |-> TRUE,
            message |-> [form |-> "Database '<db>' for usernames '<users>' &  is ready for use!",
                         database |-> Interp(cdcDatabase),
                         users |-> <<Interp(cdcUserSecret.username), Interp(serviceSecret.username)>>]]
      [] variant = "bootstrap_v2" ->
           [returned |-> TRUE,
            message |-> [form |-> "Database '<db>' for usernames for usernames '<users>' is ready for use!",
                         database |-> Interp(database),
                         users |-> <<Interp(cdcUserSecret.username), Interp(serviceSecret.username)>>]]
      [] variant = "bootstrap_after_pr" ->
           IF CdcEnabledAfterPr
           THEN [returned |-> TRUE,
                 message |-> [form |-> "Database '<db>' for username(s) '<users>' is ready for use!",
                              database |-> Interp(database),
                              users |-> SelectSeq(<<serviceSecret.username, cdcUserSecret.username>>,
                                                  Truthy)]]
           ELSE [returned |-> TRUE, message |-> SkipMessage]
      [] variant = "PT_bootstrap_v2" -> [returned |-> TRUE, message |-> NoMessage]

----------------------------------------------------------------------------
(* The state machine.                                                      *)

\* the databases and roles a run of this configuration can name
RunDatabases ==
    {Coalesce(env.APP_DATABASE_NAME, ReplaceUser(secrets.serviceUsername))}
    \cup (IF variant = "bootstrap"
          THEN {Coalesce(env.APP_DATABASE_NAME, ReplaceUser(CdcUsername))} ELSE {})
RunRoles == {secrets.serviceUsername, CdcUsername}

Init ==
    /\ variant \in Variants
    /\ env \in [CDC_USER_SECRET : {Undefined, <<"cdc-test">>},
                APP_DATABASE_NAME : DatabaseNames,
                APP_SCHEMA_NAME : SchemaNames]
    /\ secrets \in [master : RequiredKinds, service : RequiredKinds, cdc : CdcKinds,
                    serviceUsername : ServiceUsernames]
    /\ catalog \in [dbs : SUBSET RunDatabases, roles : SUBSET RunRoles]
    /\ pc = At("master", 0, 0)
    /\ mainSecret = NoSecret
    /\ serviceSecret = NoSecret
    /\ cdcUserSecret = NoSecret
    /\ exists = FALSE
    /\ lookups = <<>>
    /\ calls = <<>>
    /\ log = <<>>
    /\ issued = <<>>
    /\ error = NoError
    /\ result = NoResult
    /\ previous = <<>>
    /\ other = OtherIdle

Throw(kind) ==
    /\ pc' = At("failed", pc.phase, pc.step)
    /\ error' = kind

\* const mainSecret = JSON.parse((await secretClient.send(...)).SecretString!)
ResolveMaster ==
    /\ pc.stage = "master"
    /\ lookups' = Append(lookups, "MASTER_USER_SECRET")
    /\ IF RequiredSecretError(secrets.master) # NoError
       THEN /\ Throw(RequiredSecretError(secrets.master))
            /\ UNCHANGED mainSecret
       ELSE /\ mainSecret' = Parsed(secrets.master, MasterUsername, MasterPassword)
            /\ pc' = At("service", 0, 0)
            /\ UNCHANGED error
    /\ UNCHANGED <<other, previous, variant, env, secrets, catalog, serviceSecret, cdcUserSecret,
                   exists, calls, log, issued, result>>

\* const serviceSecret = JSON.parse((await secretClient.send(...)).SecretString!)
ResolveService ==
    /\ pc.stage = "service"
    /\ lookups' = Append(lookups, "APP_USER_SECRET")
    /\ IF RequiredSecretError(secrets.service) # NoError
       THEN /\ Throw(RequiredSecretError(secrets.service))
            /\ UNCHANGED serviceSecret
       ELSE /\ serviceSecret' = Parsed(secrets.service, secrets.serviceUsername, ServicePassword)
            /\ pc' = At("cdc", 0, 0)
            /\ UNCHANGED error
    /\ UNCHANGED <<other, previous, variant, env, secrets, catalog, mainSecret, cdcUserSecret,
                   exists, calls, log, issued, result>>

\* the CDC secret: parsed unconditionally (bootstrap.ts, bootstrap_v2.ts), or
\* looked up only when CDC_USER_SECRET is set and parsed only when non-empty
ResolveCdc ==
    /\ pc.stage = "cdc"
    /\ IF CdcRequired
       THEN /\ lookups' = Append(lookups, "CDC_USER_SECRET")
            /\ IF RequiredSecretError(CdcKind) # NoError
               THEN /\ Throw(RequiredSecretError(CdcKind))
                    /\ UNCHANGED cdcUserSecret
               ELSE /\ cdcUserSecret' = Parsed(CdcKind, CdcUsername, CdcPassword)
                    /\ pc' = At("connect", 1, 0)
                    /\ UNCHANGED error
       ELSE IF env.CDC_USER_SECRET # Undefined
       THEN /\ lookups' = Append(lookups, "CDC_USER_SECRET")
            /\ IF OptionalSecretError(secrets.cdc) # NoError
               THEN /\ Throw(OptionalSecretError(secrets.cdc))
                    /\ UNCHANGED cdcUserSecret
               ELSE /\ cdcUserSecret' = Parsed(secrets.cdc, CdcUsername, CdcPassword)
                    /\ pc' = At("connect", 1, 0)
                    /\ UNCHANGED error
       ELSE /\ pc' = At("connect", 1, 0)
            /\ UNCHANGED <<lookups, cdcUserSecret, error>>
    /\ UNCHANGED <<other, previous, variant, env, secrets, catalog, mainSecret, serviceSecret,
                   exists, calls, log, issued, result>>

Call(op, ph, ok) ==
    [op |-> op, phase |-> pc.phase, handle |-> ph.handle, database |-> ph.database,
     user |-> ph.user, ok |-> ok]

\* await conn.connect(), after the statements in front of it
Connect ==
    /\ pc.stage = "connect"
    /\ LET ph == Phases[pc.phase] IN
       IF ph.throws
       THEN /\ Throw("TypeError")
            /\ UNCHANGED calls
       ELSE \E ok \in BOOLEAN :
            /\ calls' = Append(calls, Call("connect", ph, ok))
            /\ IF ok
               THEN pc' = At("body", pc.phase, 1) /\ UNCHANGED error
               ELSE pc' = OnConnectFailure(pc.phase) /\ error' = "ConnectError"
    /\ UNCHANGED <<other, previous, variant, env, secrets, catalog, mainSecret, serviceSecret,
                   cdcUserSecret, exists, lookups, log, issued, result>>

\* await query(conn, `...`): the template literal is evaluated, the statement
\* is logged and submitted, and the driver answers or throws
Query ==
    /\ pc.stage = "body"
    /\ LET ph == Phases[pc.phase]
           st == ph.body[pc.step].stmt
       IN  IF Unbound \in Range(st.args)
           THEN /\ error' = "ReferenceError"
                /\ pc' = OnThrow(pc.phase, pc.step)
                /\ UNCHANGED <<log, issued, catalog, exists>>
           ELSE \E ok \in BOOLEAN :
                /\ ok => ~Duplicate(catalog, st)
                /\ log' = Append(log, [label |-> Interp(ph.database), stmt |-> st])
                /\ issued' = Append(issued, [handle |-> ph.handle, phase |-> pc.phase,
                                             step |-> pc.step,
                                             stmt |-> st, ok |-> ok,
                                             exists |-> ok /\ Answer(catalog, st),
                                             present |-> Duplicate(catalog, st)])
                /\ IF ok
                   THEN /\ catalog' = Effect(catalog, st)
                        /\ exists' = Answer(catalog, st)
                        /\ pc' = IF AfterStep(pc.phase, pc.step, exists').stage = "finally"
                                 THEN OnComplete(pc.phase, pc.step)
                                 ELSE AfterStep(pc.phase, pc.step, exists')
                        /\ UNCHANGED error
                   ELSE /\ error' = "QueryError"
                        /\ pc' = OnThrow(pc.phase, pc.step)
                        /\ catalog' = AfterFailure(catalog, issued)
                        /\ UNCHANGED exists
    /\ UNCHANGED <<other, previous, variant, env, secrets, mainSecret, serviceSecret, cdcUserSecret,
                   lookups, calls, result>>

\* finally { await conn.end() }: a pending error goes on to the caller, and an
\* error of end() itself replaces it
End ==
    /\ pc.stage = "finally"
    /\ \E ok \in BOOLEAN :
       /\ calls' = Append(calls, Call("end", Phases[pc.phase], ok))
       /\ IF ~ok THEN Throw("EndError")
          ELSE IF error # NoError THEN Throw(error)
          ELSE pc' = NextPhase(pc.phase + 1) /\ UNCHANGED error
    /\ UNCHANGED <<other, previous, variant, env, secrets, catalog, mainSecret, serviceSecret,
                   cdcUserSecret, exists, lookups, log, issued, result>>

\* return { message }, or the end of the function body
Return ==
    /\ pc.stage = "return"
    /\ result' = Result
    /\ pc' = At("done", pc.phase, 0)
    /\ UNCHANGED <<other, previous, variant, env, secrets, catalog, mainSecret, serviceSecret,
                   cdcUserSecret, exists, lookups, calls, log, issued, error>>

Next == ResolveMaster \/ ResolveService \/ ResolveCdc \/ Connect \/ Query \/ End \/ Return

Spec == Init /\ [][Next]_vars

TypeOK == pc.stage \in {"master", "service", "cdc", "connect", "body", "finally",
                        "return", "done", "failed"}

----------------------------------------------------------------------------
(* Observations on the histories.                                          *)

PhaseIds == 1..4

Terminated == pc.stage \in {"done", "failed"}

\* connect() calls of phase i that succeeded, and end() calls of phase i
ConnectedIn(i) == {k \in 1..Len(calls) : calls[k].op = "connect" /\ calls[k].phase = i /\ calls[k].ok}
EndedIn(i)     == {k \in 1..Len(calls) : calls[k].op = "end" /\ calls[k].phase = i}

\* the connection of phase i is open: connected, and end() not yet invoked
OpenIn(i) == Cardinality(ConnectedIn(i)) > Cardinality(EndedIn(i))

\* the handler is inside the try/finally of phase i
InTry(i) == pc.phase = i /\ pc.stage \in {"body", "finally"}

\* no call to the driver failed so far
NoDriverFault ==
    /\ \A k \in 1..Len(calls) : calls[k].ok
    /\ \A k \in 1..Len(issued) : issued[k].ok

IsCheckOp(op)  == op \in {"SelectDatabaseExists", "SelectRoleExists"}
IsCreateOp(op) == op \in {"CreateDatabase", "CreateUser"}
CreateOpOf(op) == IF op = "SelectDatabaseExists" THEN "CreateDatabase" ELSE "CreateUser"
IsDeletingOp(op) == op \in {"DropDatabase", "DropUser", "DropRole", "DropSchema",
                            "DropOwned", "DropPublication"}

\* issued[k] is the creation statement of the identity that issued[j] checked
CreatesWhatWasChecked(j, k) ==
    /\ IsCheckOp(issued[j].stmt.op)
    /\ issued[k].stmt.op = CreateOpOf(issued[j].stmt.op)
    /\ issued[k].stmt.args[1] = issued[j].stmt.args[1]
    /\ issued[k].handle = issued[j].handle
    /\ issued[k].phase = issued[j].phase

\* the statement names the CDC role: the name in the stored secret, or the
\* name the run interpolates from the secret it parsed
MentionsCdcUser(st) ==
    \/ CdcUsername \in Range(st.args)
    \/ cdcUserSecret.defined /\ Interp(cdcUserSecret.username) \in Range(st.args)

\* statements only the CDC code issues: rds_replication, publication, ...
IsCdcOnlyOp(op) == op \in {"GrantSelectAllTables", "GrantRdsReplicationSuperuser",
                           "GrantRdsReplication", "CreatePublication",
                           "AlterUserReplication"}

ConcernsCdc(st) == MentionsCdcUser(st) \/ IsCdcOnlyOp(st.op)

CdcConfigured == env.CDC_USER_SECRET # Undefined

RequiredSecretsValid == secrets.master = "valid" /\ secrets.service = "valid"

Min(S) == CHOOSE x \in S : \A y \in S : x <= y

----------------------------------------------------------------------------
(* The handler invoked again against the same target: same environment,    *)
(* same secret store, the catalog as the earlier invocation left it.       *)

\* invocations of the handler in one behaviour
MaxRuns == 2

\* how the invocation that ended went
\* the databases and roles the lists of the phases entered provide for
EnsuredBy(op) ==
    LET ps == Phases IN
    UNION {{ps[i].body[j].stmt.args[1] :
                j \in {n \in 1..Len(ps[i].body) : ps[i].body[n].stmt.op = op}} :
           i \in {m \in 1..Len(ps) : ps[m].runs}}

\* what the invocation created that its lists do not provide for
Strays ==
    LET dbs   == EnsuredBy("CreateDatabase")
        roles == EnsuredBy("CreateUser")
    IN  {issued[k].stmt.args[1] : k \in {j \in 1..Len(issued) :
            /\ issued[j].ok
            /\ \/ issued[j].stmt.op = "CreateDatabase" /\ issued[j].stmt.args[1] \notin dbs
               \/ issued[j].stmt.op = "CreateUser" /\ issued[j].stmt.args[1] \notin roles}}

\* (fault: a driver call of it threw, a statement or a connect() or end())
Outcome == [returned |-> pc.stage = "done", message |-> result.message,
            created |-> \E k \in 1..Len(issued) : IsCreateOp(issued[k].stmt.op),
            fault |-> ~NoDriverFault,
            strays |-> Strays]

\* export const handler = async () => { ... }, called once more
Rerun ==
    /\ Terminated
    /\ Len(previous) + 1 < MaxRuns
    /\ previous' = Append(previous, Outcome)
    /\ pc' = At("master", 0, 0)
    /\ mainSecret' = NoSecret
    /\ serviceSecret' = NoSecret
    /\ cdcUserSecret' = NoSecret
    /\ exists' = FALSE
    /\ lookups' = <<>>
    /\ calls' = <<>>
    /\ log' = <<>>
    /\ issued' = <<>>
    /\ error' = NoError
    /\ result' = NoResult
    /\ UNCHANGED <<variant, env, secrets, catalog, other>>

NextTwice == Next \/ Rerun

SpecTwice == Init /\ [][NextTwice]_vars

----------------------------------------------------------------------------
(* Two invocations at the same time against the same server.  The second  *)
(* is the same file with the same environment and secret store, so its     *)
(* locals are those of the first once resolved; it is followed through its *)
(* admin phase, each awaited statement a step of its own, with its own     *)
(* connection and its own rows[0].exists.  Nothing in the handler groups a *)
(* check and the creation it guards: no transaction, no lock.              *)

\* the statements inside the try block of the second invocation's admin phase
OtherBody == Phases[1].body

\* await query(mainConn, `...`) in the second invocation
OtherQuery ==
    /\ pc.stage \notin {"master", "service", "cdc"}
    /\ serviceSecret.defined
    /\ ~other.stopped
    /\ other.step <= Len(OtherBody)
    /\ LET st == OtherBody[other.step].stmt
       IN  IF Unbound \in Range(st.args)
           THEN /\ other' = [other EXCEPT !.stopped = TRUE]
                /\ UNCHANGED catalog
           ELSE \E ok \in BOOLEAN :
                /\ ok => ~Duplicate(catalog, st)
                /\ IF ok
                   THEN /\ catalog' = Effect(catalog, st)
                        /\ LET after == AfterStep(1, other.step, Answer(catalog, st))
                           IN  other' = [other EXCEPT
                                   !.exists = Answer(catalog, st),
                                   !.step = IF after.stage = "finally"
                                            THEN Len(OtherBody) + 1 ELSE after.step]
                   ELSE /\ other' = [other EXCEPT !.stopped = TRUE,
                                                  !.raced = @ \/ Duplicate(catalog, st)]
                        /\ UNCHANGED catalog
    /\ UNCHANGED <<variant, env, secrets, pc, mainSecret, serviceSecret, cdcUserSecret,
                   exists, lookups, calls, log, issued, error, result, previous>>

\* the race is about the names the two invocations share, not about how they
\* are derived or about secrets that do not resolve: one service username,
\* no explicit schema, master and service secrets that resolve
InitConcurrent ==
    /\ Init
    /\ secrets.serviceUsername = <<"svc">>
    /\ secrets.master = "valid"
    /\ secrets.service = "valid"
    /\ env.APP_SCHEMA_NAME = Undefined

NextConcurrent == Next \/ OtherQuery

SpecConcurrent == InitConcurrent /\ [][NextConcurrent]_vars

----------------------------------------------------------------------------
(* Every awaited call eventually returns or throws: the handler is never    *)
(* left waiting, so whenever it has a step to take it takes one.            *)

SpecFair == Spec /\ WF_vars(Next)

----------------------------------------------------------------------------
(* Loading the module: const env = cleanEnv(process.env, validators()).    *)
(* Before Load the variable env holds what the deployment set in           *)
(* process.env; MASTER_USER_SECRET, APP_USER_SECRET and RDS_HOST are set   *)
(* in every deployment considered.                                         *)

\* validators(): str({desc}) is a required variable, str({default: undefined,
\* desc}) one that may be left unset
validators == [MASTER_USER_SECRET |-> [hasDefault |-> FALSE],
               APP_USER_SECRET    |-> [hasDefault |-> FALSE],
               CDC_USER_SECRET    |-> [hasDefault |-> FALSE],
               APP_DATABASE_NAME  |-> [hasDefault |-> TRUE],
               APP_SCHEMA_NAME    |-> [hasDefault |-> TRUE],
               RDS_HOST           |-> [hasDefault |-> FALSE]]

\* process.env of the deployment
ProcessEnv(e) == [MASTER_USER_SECRET |-> <<"master-test">>,
                  APP_USER_SECRET    |-> <<"app-test">>,
                  CDC_USER_SECRET    |-> e.CDC_USER_SECRET,
                  APP_DATABASE_NAME  |-> e.APP_DATABASE_NAME,
                  APP_SCHEMA_NAME    |-> e.APP_SCHEMA_NAME,
                  RDS_HOST           |-> <<"host-test">>]

\* the names cleanEnv reports as missing
MissingVars(specs, penv) ==
    {n \in DOMAIN specs : ~specs[n].hasDefault /\ penv[n] = Undefined}

InitLoad ==
    /\ variant \in Variants
    /\ env \in [CDC_USER_SECRET : {Undefined, <<"cdc-test">>},
                APP_DATABASE_NAME : DatabaseNames,
                APP_SCHEMA_NAME : SchemaNames]
    /\ secrets \in [master : RequiredKinds, service : RequiredKinds, cdc : CdcKinds,
                    serviceUsername : ServiceUsernames]
    /\ catalog \in [dbs : SUBSET RunDatabases, roles : SUBSET RunRoles]
    /\ pc = At("load", 0, 0)
    /\ mainSecret = NoSecret
    /\ serviceSecret = NoSecret
    /\ cdcUserSecret = NoSecret
    /\ exists = FALSE
    /\ lookups = <<>>
    /\ calls = <<>>
    /\ log = <<>>
    /\ issued = <<>>
    /\ error = NoError
    /\ result = NoResult
    /\ previous = <<>>
    /\ other = OtherIdle

\* const env = cleanEnv(process.env, validators()): a missing required name
\* fails the load and the handler is never entered
Load ==
    /\ pc.stage = "load"
    /\ IF MissingVars(validators, ProcessEnv(env)) # {}
       THEN Throw("EnvError")
       ELSE pc' = At("master", 0, 0) /\ UNCHANGED error
    /\ UNCHANGED <<variant, env, secrets, catalog, mainSecret, serviceSecret,
                   cdcUserSecret, exists, lookups, calls, log, issued, result,
                   previous, other>>

NextLoad == Load \/ Next

SpecLoad == InitLoad /\ [][NextLoad]_vars

----------------------------------------------------------------------------
(* Claims.                                                                 *)

\* C1: in every variant, a connection whose connect() succeeded has end()
\* invoked on it exactly once per phase: end() is never invoked without or
\* twice after a successful connect(), and the connection is un-ended only
\* while the handler is still inside that phase's try/finally, so both on
\* return and when the error reaches the caller end() has been invoked.
C1_EndExactlyOnce ==
    \A i \in PhaseIds :
        /\ Cardinality(ConnectedIn(i)) <= 1
        /\ Cardinality(EndedIn(i)) <= Cardinality(ConnectedIn(i))
        /\ OpenIn(i) => InTry(i)

\* a statement threw, end() ran once on its connection, and the error reached the caller
C1_Witness ==
    /\ pc.stage = "failed"
    /\ error = "QueryError"
    /\ issued # <<>>
    /\ ~issued[Len(issued)].ok
    /\ Cardinality(EndedIn(pc.phase)) = 1

\* C2: in every reachable state at most one connection is open, and every
\* connect() after the first directly follows an end() that completed.
C2_AtMostOneOpen ==
    /\ Cardinality({i \in PhaseIds : OpenIn(i)}) <= 1
    /\ \A k \in 2..Len(calls) :
           calls[k].op = "connect" => calls[k - 1].op = "end" /\ calls[k - 1].ok

\* the second connection is open, the first one ended
C2_Witness ==
    /\ OpenIn(2)
    /\ Cardinality(EndedIn(1)) = 1

\* C3: a CREATE DATABASE / CREATE USER is issued only directly after this
\* run's existence check of the same identity answered other than true; a
\* check that answered other than true is directly followed by that
\* creation; no identity is created twice; nothing is dropped.
C3_CreateIffAbsent ==
    /\ \A k \in 1..Len(issued) :
           IsCreateOp(issued[k].stmt.op) =>
               /\ k > 1
               /\ CreatesWhatWasChecked(k - 1, k)
               /\ issued[k - 1].ok
               /\ issued[k - 1].exists # TRUE
    /\ \A j \in 1..Len(issued) :
           (IsCheckOp(issued[j].stmt.op) /\ issued[j].ok /\ issued[j].exists # TRUE) =>
               IF j < Len(issued)
               THEN CreatesWhatWasChecked(j, j + 1)
               ELSE /\ pc.stage = "body"
                    /\ Phases[pc.phase].body[pc.step].kind = "create"
                    /\ Phases[pc.phase].body[pc.step].stmt.args[1] = issued[j].stmt.args[1]
    /\ \A j, k \in 1..Len(issued) :
           (j < k /\ IsCreateOp(issued[j].stmt.op) /\ issued[j].stmt.op = issued[k].stmt.op)
               => issued[j].stmt.args[1] # issued[k].stmt.args[1]
    /\ \A k \in 1..Len(issued) : ~IsDeletingOp(issued[k].stmt.op)

\* one identity existed and was left alone, another was absent and was created
C3_Witness ==
    /\ Terminated
    /\ \E j, k \in 1..Len(issued) :
           /\ IsCheckOp(issued[j].stmt.op) /\ issued[j].ok /\ issued[j].exists
           /\ j < Len(issued) /\ ~IsCreateOp(issued[j + 1].stmt.op)
           /\ IsCreateOp(issued[k].stmt.op)

\* C4: in PT_bootstrap_v2.ts, for a run whose secret steps complete (every
\* lookup answers, every payload that is parsed is JSON) and in which no
\* driver call fails: the CDC phase executes, through the publication, if
\* CDC_USER_SECRET is configured and its payload has username and password;
\* in every other case no CDC statement is issued; in both cases the run
\* completes successfully.
C4_CdcPhaseIffValidSecret ==
    (variant = "PT_bootstrap_v2" /\ Terminated /\ RequiredSecretsValid /\ NoDriverFault
     /\ (CdcConfigured => secrets.cdc \in {"valid", "nokeys", "undefined", "empty"})) =>
        /\ pc.stage = "done"
        /\ IF CdcConfigured /\ secrets.cdc = "valid"
           THEN \E k \in 1..Len(issued) : issued[k].stmt.op = "CreatePublication"
           ELSE \A k \in 1..Len(issued) : ~ConcernsCdc(issued[k].stmt)

\* C5: in bootstrap_after_pr.ts, with CDC_USER_SECRET unset or a SecretString
\* that is undefined or '', no statement that concerns the CDC user,
\* rds_replication or the publication is logged or issued, no connection
\* beyond mainConn and serviceConn is opened, a run in which nothing fails
\* returns, and what is returned is exactly the skip message.
C5_SkipWhenCdcAbsent ==
    (variant = "bootstrap_after_pr"
     /\ (~CdcConfigured \/ secrets.cdc \in {"undefined", "empty"})) =>
        /\ \A k \in 1..Len(issued) : ~ConcernsCdc(issued[k].stmt)
        /\ \A k \in 1..Len(log) : ~ConcernsCdc(log[k].stmt)
        /\ \A k \in 1..Len(calls) : calls[k].handle \in {"mainConn", "serviceConn"}
        /\ Cardinality({k \in 1..Len(calls) : calls[k].op = "connect"}) <= 2
        /\ (Terminated /\ RequiredSecretsValid /\ NoDriverFault) => pc.stage = "done"
        /\ pc.stage = "done" => result = [returned |-> TRUE, message |-> SkipMessage]

\* the secret is configured but empty, and the run returned the skip message
C5_Witness ==
    /\ variant = "bootstrap_after_pr"
    /\ CdcConfigured
    /\ secrets.cdc = "empty"
    /\ pc.stage = "done"
    /\ result.message = SkipMessage
    /\ Len(calls) = 4

\* C6: in bootstrap_after_pr.ts, a CDC secret that is valid JSON without
\* username and password ('{}') is skipped: no CDC role check, creation,
\* grant or publication statement is issued and the skip message is returned.
C6_MissingKeysSkipped ==
    (variant = "bootstrap_after_pr" /\ CdcConfigured /\ secrets.cdc = "nokeys") =>
        /\ \A k \in 1..Len(issued) : ~ConcernsCdc(issued[k].stmt)
        /\ pc.stage = "done" => result.message = SkipMessage

\* C7: a failed lookup or malformed payload of the master or service secret,
\* and a non-empty CDC payload that is not JSON, make the handler throw in its
\* secret steps: no connect(), no log entry, no statement, no result.
C7_SecretErrorsBeforeConnect ==
    (\/ secrets.master \in {"throw", "badjson"}
     \/ secrets.service \in {"throw", "badjson"}
     \/ CdcConfigured /\ secrets.cdc = "badjson") =>
        /\ calls = <<>>
        /\ log = <<>>
        /\ issued = <<>>
        /\ result = NoResult
        /\ pc.stage \in {"master", "service", "cdc", "failed"}
        /\ pc.stage = "failed" => error \in {"LookupError", "SyntaxError"}

\* the CDC payload is malformed and JSON.parse threw, after the other two resolved
C7_Witness ==
    /\ CdcConfigured
    /\ secrets.cdc = "badjson"
    /\ pc.stage = "failed"
    /\ error = "SyntaxError"
    /\ Len(lookups) = 3

DbCheckEntries  == {k \in 1..Len(log) : log[k].stmt.op = "SelectDatabaseExists"}
SvcCheckEntries == {k \in 1..Len(log) : /\ log[k].stmt.op = "SelectRoleExists"
                                        /\ log[k].stmt.args[1] = serviceSecret.username}
CdcEntries      == {k \in 1..Len(log) : ConcernsCdc(log[k].stmt)}

\* C9: in every run that returned, a database-existence check is logged
\* before the service-role check, and the service-role check before every
\* entry that concerns the CDC role.  (bootstrap.ts repeats the database
\* check in its second admin phase; the order is that of the first check.)
C9_PhaseOrder ==
    pc.stage = "done" =>
        /\ DbCheckEntries # {}
        /\ SvcCheckEntries # {}
        /\ Min(DbCheckEntries) < Min(SvcCheckEntries)
        /\ \A k \in CdcEntries : Min(SvcCheckEntries) < k
        /\ Min(DbCheckEntries) = 1

\* a run with a CDC phase returned
C9_Witness ==
    /\ pc.stage = "done"
    /\ \E k \in CdcEntries : log[k].stmt.op = "SelectRoleExists"
    /\ \E k \in CdcEntries : log[k].stmt.op = "GrantConnect"

\* C10: in a run with CDC enabled one admin connection (no target database)
\* is opened in the whole run, every existence check and creation is issued
\* in its phase, the CDC role check has been issued before any connection to
\* the target database is opened, and a run in which nothing fails has issued
\* the CDC role check on that admin connection.
C10_SingleAdminConnection ==
    (CdcConfigured /\ secrets.cdc = "valid" /\ RequiredSecretsValid) =>
        /\ Cardinality({k \in 1..Len(calls) : /\ calls[k].op = "connect"
                                              /\ calls[k].database = Undefined}) <= 1
        /\ \A k \in 1..Len(issued) :
               (IsCheckOp(issued[k].stmt.op) \/ IsCreateOp(issued[k].stmt.op))
                   => issued[k].phase = 1
        /\ ((Terminated /\ NoDriverFault)
            \/ (\E k \in 1..Len(calls) : /\ calls[k].op = "connect" /\ calls[k].ok
                                         /\ calls[k].database # Undefined))
               => \E j \in 1..Len(issued) : /\ issued[j].stmt.op = "SelectRoleExists"
                                            /\ MentionsCdcUser(issued[j].stmt)
                                            /\ issued[j].phase = 1

\* the statements issued in phase i, in order, and their kinds
IssuedIn(i) == SelectSeq(issued, LAMBDA e : e.phase = i)
OpsOf(s)    == [k \in 1..Len(s) |-> s[k].stmt.op]

\* the service-role list as the specification gives it
TwelveServiceStatements == <<
    "CreateSchema", "CreateExtensionPgTrgm", "CreateExtensionIntarray",
    "GrantConnect", "GrantCreate", "CreateSchema",
    "RevokeCreatePublic", "RevokeAllPublic", "GrantUsageCreateSchema",
    "AlterDefaultPrivileges", "GrantAllPrivileges", "AlterDatabaseOwner" >>

\* C11: in every variant, a run that returned has issued in its service-grant
\* phase exactly the twelve statements of the service-role list, in order, on
\* the connection to the target database, the last one making the service
\* role the owner.
C11_ServiceGrantList ==
    pc.stage = "done" =>
        /\ OpsOf(IssuedIn(2)) = TwelveServiceStatements
        /\ \A k \in 1..Len(IssuedIn(2)) : IssuedIn(2)[k].handle = "serviceConn"
        /\ \A k \in 1..Len(calls) :
               (calls[k].op = "connect" /\ calls[k].phase = 2) => calls[k].database = database
        /\ IssuedIn(2)[Len(IssuedIn(2))].stmt.args = <<database, serviceSecret.username>>

\* the CDC grant phase is the last phase of every variant
CdcPhase == Len(Phases)

IsPrefix(s, t) == Len(s) <= Len(t) /\ \A k \in 1..Len(s) : s[k] = t[k]

\* the CDC-role list as the specification gives it, for the role the run names
FourCdcStatements == <<
    Stmt("GrantConnect", <<Interp(database), Interp(cdcUserSecret.username)>>),
    Stmt("GrantSelectAllTables", <<Interp(schema), Interp(cdcUserSecret.username)>>),
    Stmt("GrantRdsReplicationSuperuser", <<Interp(cdcUserSecret.username)>>),
    Stmt("CreatePublication", <<>>) >>

\* C12: the connection of the CDC grant phase is opened only after ALTER
\* DATABASE OWNER of the service-role list completed and the service
\* connection was closed, to the same target database, with the admin
\* credential; what is issued on it is, in order, GRANT CONNECT, GRANT SELECT
\* ON ALL TABLES IN SCHEMA, GRANT rds_replication, rds_superuser and CREATE
\* PUBLICATION, all four once the phase completed.
C12_CdcGrantList ==
    /\ \A k \in 1..Len(calls) :
           (calls[k].op = "connect" /\ calls[k].phase = CdcPhase) =>
               /\ calls[k].database = database
               /\ calls[k].user = MasterUsername
               /\ \E j \in 1..(k - 1) : calls[j].op = "end" /\ calls[j].phase = 2 /\ calls[j].ok
               /\ \E j \in 1..Len(issued) : /\ issued[j].phase = 2 /\ issued[j].ok
                                            /\ issued[j].stmt.op = "AlterDatabaseOwner"
    /\ IsPrefix([k \in 1..Len(IssuedIn(CdcPhase)) |-> IssuedIn(CdcPhase)[k].stmt],
                FourCdcStatements)
    /\ (pc.stage = "done" /\ ConnectedIn(CdcPhase) # {}) =>
           Len(IssuedIn(CdcPhase)) = Len(FourCdcStatements)

\* every lookup answers and every payload that is parsed is JSON
SecretStepsComplete ==
    /\ RequiredSecretsValid
    /\ IF CdcRequired THEN CdcConfigured /\ secrets.cdc \in {"valid", "nokeys"}
       ELSE CdcConfigured => secrets.cdc \in {"valid", "nokeys", "undefined", "empty"}

\* C13: in PT_bootstrap_v2.ts a run in which nothing fails (the secrets
\* resolve, no driver call fails), with the CDC phase run or skipped, ends
\* without throwing, and a run that ended without throwing has returned a
\* result object carrying a message.
C13_PTReturnsMessage ==
    variant = "PT_bootstrap_v2" =>
        /\ (Terminated /\ SecretStepsComplete /\ NoDriverFault) => pc.stage = "done"
        /\ pc.stage = "done" => (result.returned /\ result.message # NoMessage)

\* C14: in bootstrap_after_pr.ts, a run that returned after its CDC phase ran
\* (the CDC connections were opened) carries the message "Database '<db>' for
\* username(s) '<service> & <cdc>' is ready for use!", service username first
\* and the CDC role's name second; a run that returned without a CDC phase
\* carries the skip message, which names no user.
C14_MessageNamesCdcIffRan ==
    (variant = "bootstrap_after_pr" /\ pc.stage = "done") =>
        IF ConnectedIn(3) # {} \/ ConnectedIn(4) # {}
        THEN /\ result.message.form = "Database '<db>' for username(s) '<users>' is ready for use!"
             /\ result.message.database = database
             /\ result.message.users = <<serviceSecret.username, Interp(cdcUserSecret.username)>>
        ELSE /\ result.message = SkipMessage
             /\ result.message.users = <<>>

\* the database and the schema the first two phases work on: the database
\* checked by the admin phase and connected to by the service-grant phase,
\* the schema the service-grant phase creates
TargetDatabases ==
    {issued[k].stmt.args[1] : k \in {j \in 1..Len(issued) :
        issued[j].phase = 1 /\ issued[j].stmt.op = "SelectDatabaseExists"}}
    \cup {calls[k].database : k \in {j \in 1..Len(calls) : calls[j].phase = 2}}
TargetSchemas ==
    {issued[k].stmt.args[1] : k \in {j \in 1..Len(issued) :
        issued[j].phase = 2 /\ issued[j].stmt.op = "CreateSchema"}}

\* s without a trailing "_user"
StripTrailingUser(s) ==
    IF s # <<>> /\ s[Len(s)] = "_user" THEN SubSeq(s, 1, Len(s) - 1) ELSE s

\* d is s without its first "_user", or s itself if it has none
IsWithoutFirstUser(d, s) ==
    \/ /\ \A i \in 1..Len(s) : s[i] # "_user"
       /\ d = s
    \/ \E i \in 1..Len(s) :
          /\ s[i] = "_user"
          /\ \A j \in 1..(i - 1) : s[j] # "_user"
          /\ d = SubSeq(s, 1, i - 1) \o SubSeq(s, i + 1, Len(s))

\* C15 as stated: without APP_DATABASE_NAME the target database is the
\* service username with a trailing '_user' stripped, unchanged if it has no
\* such suffix; without APP_SCHEMA_NAME the schema is the service username;
\* a configured value is used as it is.
C15_DefaultStripsSuffix ==
    /\ \A d \in TargetDatabases :
           d = IF env.APP_DATABASE_NAME = Undefined
               THEN StripTrailingUser(secrets.serviceUsername)
               ELSE env.APP_DATABASE_NAME
    /\ \A c \in TargetSchemas :
           c = IF env.APP_SCHEMA_NAME = Undefined
               THEN secrets.serviceUsername
               ELSE env.APP_SCHEMA_NAME

\* C15 amended: without APP_DATABASE_NAME the target database is the service
\* username with its first occurrence of '_user' removed, wherever in the
\* name it occurs (a trailing suffix is the case of one occurrence at the
\* end), unchanged if it has none; without APP_SCHEMA_NAME the schema is the
\* service username; a configured value is used as it is.
C15_DefaultRemovesFirstUser ==
    /\ \A d \in TargetDatabases :
           IF env.APP_DATABASE_NAME = Undefined
           THEN IsWithoutFirstUser(d, secrets.serviceUsername)
           ELSE d = env.APP_DATABASE_NAME
    /\ \A c \in TargetSchemas :
           c = IF env.APP_SCHEMA_NAME = Undefined
               THEN secrets.serviceUsername
               ELSE env.APP_SCHEMA_NAME

\* nothing configured, '_user' inside the username: the service-grant phase
\* created the schema named as the username in the database named without it
C15_Witness ==
    /\ env.APP_DATABASE_NAME = Undefined
    /\ env.APP_SCHEMA_NAME = Undefined
    /\ secrets.serviceUsername = <<"etl", "_user", "_ro">>
    /\ TargetDatabases = {<<"etl", "_ro">>}
    /\ TargetSchemas = {<<"etl", "_user", "_ro">>}
    /\ \E k \in 1..Len(calls) : calls[k].phase = 2 /\ calls[k].ok

LogEntriesWithoutCdc == 16

\* C17: at every point of a run the log has one entry per statement
\* submitted, in the same order, each carrying the database label of the
\* statement's connection and the statement (so a statement that threw is
\* in the log); and a run that returned without any CDC statement, every
\* existence check having answered false, has logged 16 entries.
C17_LogMirrorsStatements ==
    /\ Len(log) = Len(issued)
    /\ \A k \in 1..Len(issued) :
           /\ log[k].stmt = issued[k].stmt
           /\ log[k].label = Interp(Phases[issued[k].phase].database)
    /\ (/\ pc.stage = "done"
        /\ \A k \in 1..Len(issued) : ~ConcernsCdc(issued[k].stmt)
        /\ \A k \in 1..Len(issued) : IsCheckOp(issued[k].stmt.op) => ~issued[k].exists)
           => Len(log) = LogEntriesWithoutCdc

\* C18: a statement that threw is the last statement of the run: it is not
\* issued again, nothing follows it in its phase or in a later one, no
\* connection of a later phase is opened, the handler is in the finally
\* block of that phase or has rejected, and it returns no result.
C18_NothingAfterFailedStatement ==
    \A k \in 1..Len(issued) :
        ~issued[k].ok =>
            /\ k = Len(issued)
            /\ \A c \in 1..Len(calls) : calls[c].phase <= issued[k].phase
            /\ pc.phase = issued[k].phase
            /\ pc.stage \in {"finally", "failed"}
            /\ error # NoError
            /\ result = NoResult
            /\ Terminated => Cardinality(EndedIn(issued[k].phase)) = 1

\* a service grant in the middle of its list threw and the handler rejected:
\* the rest of the list and the CDC phases did not happen
C18_Witness ==
    /\ pc.stage = "failed"
    /\ error = "QueryError"
    /\ variant = "bootstrap_after_pr"
    /\ cdcUserSecret.defined
    /\ Len(issued) > 4
    /\ issued[Len(issued)].stmt.op = "GrantCreate"
    /\ ~issued[Len(issued)].ok
    /\ \A c \in 1..Len(calls) : calls[c].phase <= 2

\* C19: a connect() that failed is the last call on any client in the run:
\* the handler has rejected with the connect error, end() was not invoked
\* for that phase's connection, no statement was issued in that phase or a
\* later one, no later connection was opened, and nothing is returned.
C19_ConnectFailurePropagates ==
    \A k \in 1..Len(calls) :
        (calls[k].op = "connect" /\ ~calls[k].ok) =>
            /\ k = Len(calls)
            /\ pc = At("failed", calls[k].phase, 0)
            /\ error = "ConnectError"
            /\ EndedIn(calls[k].phase) = {}
            /\ \A j \in 1..Len(issued) : issued[j].phase < calls[k].phase
            /\ result = NoResult

\* the admin phase completed, then the connection to the target database
\* could not be opened
C19_Witness ==
    /\ pc.stage = "failed"
    /\ error = "ConnectError"
    /\ Len(calls) = 3
    /\ calls[3].op = "connect" /\ ~calls[3].ok /\ calls[3].phase = 2
    /\ calls[2].op = "end" /\ calls[2].ok
    /\ issued # <<>>

\* the clients of the existence checks and creations, and those of the grants
AdminHandles == {"mainConn", "adminConn"}
GrantHandles == {"serviceConn", "cdcDbConn", "sameDbConn", "cdcConn"}

\* C20: in every variant every connect() is made by a client constructed
\* with the master credential, never the service or the CDC one; an admin
\* client names no database, a grant-phase client (service or CDC) names
\* the resolved target database.
C20_MasterCredentialOnly ==
    \A k \in 1..Len(calls) :
        calls[k].op = "connect" =>
            /\ calls[k].user = MasterUsername
            /\ calls[k].user \notin {secrets.serviceUsername, CdcUsername}
            /\ calls[k].handle \in AdminHandles \cup GrantHandles
            /\ calls[k].handle \in AdminHandles => calls[k].database = Undefined
            /\ calls[k].handle \in GrantHandles => calls[k].database = database

\* the phases in which a client was connected, ended or queried
PhasesOfHandle(h) ==
    {calls[k].phase : k \in {j \in 1..Len(calls) : calls[j].handle = h}}
    \cup {issued[k].phase : k \in {j \in 1..Len(issued) : issued[j].handle = h}}

\* C21: in every variant a client is used by one phase only: connect() is
\* invoked on it at most once in a run, and once end() has been invoked on
\* it no connect() and no query() is invoked on it again.
C21_HandleUsedByOnePhase ==
    \A h \in AdminHandles \cup GrantHandles :
        /\ Cardinality({k \in 1..Len(calls) : calls[k].op = "connect" /\ calls[k].handle = h}) <= 1
        /\ Cardinality(PhasesOfHandle(h)) <= 1
        /\ \A k \in 1..Len(calls) :
               (calls[k].op = "end" /\ calls[k].handle = h) =>
                   /\ \A j \in (k + 1)..Len(calls) : calls[j].handle # h
                   /\ \A j \in 1..Len(issued) :
                          issued[j].handle = h => issued[j].phase = calls[k].phase

\* the error of the first operation that failed in the run, as far as the
\* histories tell: a statement, a connect(), or a secret step
FirstFailure ==
    IF \E k \in 1..Len(issued) : ~issued[k].ok THEN "QueryError"
    ELSE IF \E k \in 1..Len(calls) : calls[k].op = "connect" /\ ~calls[k].ok THEN "ConnectError"
    ELSE IF calls = <<>> /\ RequiredSecretError(secrets.master) # NoError
         THEN RequiredSecretError(secrets.master)
    ELSE IF calls = <<>> /\ RequiredSecretError(secrets.service) # NoError
         THEN RequiredSecretError(secrets.service)
    ELSE NoError

\* C22: when the handler has rejected and a secret step, a connect() or a
\* statement failed in the run, the error the caller receives is the error
\* of the first of these; an error of end() in the finally block does not
\* take the place of the statement's error.
C22_FirstErrorReachesCaller ==
    (pc.stage = "failed" /\ FirstFailure # NoError) => error = FirstFailure

\* the databases and roles whose creation completed in this run
CreatedDatabases ==
    {issued[k].stmt.args[1] : k \in {j \in 1..Len(issued) :
        issued[j].ok /\ issued[j].stmt.op = "CreateDatabase"}}
CreatedRoles ==
    {issued[k].stmt.args[1] : k \in {j \in 1..Len(issued) :
        issued[j].ok /\ issued[j].stmt.op = "CreateUser"}}

\* C23: at every point of a run, also after a statement threw and after the
\* handler rejected, every database and role whose creation completed is in
\* the catalog; a creation that threw has created nothing; no statement that
\* drops anything is issued, and nothing is issued after the statement that
\* threw.
C23_NoRollback ==
    /\ CreatedDatabases \subseteq catalog.dbs
    /\ CreatedRoles \subseteq catalog.roles
    /\ \A k \in 1..Len(issued) :
           ~issued[k].ok =>
               /\ k = Len(issued)
               /\ issued[k].stmt.op = "CreateDatabase" => issued[k].stmt.args[1] \notin catalog.dbs
               /\ issued[k].stmt.op = "CreateUser" => issued[k].stmt.args[1] \notin catalog.roles
    /\ \A k \in 1..Len(issued) : ~IsDeletingOp(issued[k].stmt.op)

\* the database and the service role were created, then a service grant
\* threw and the handler rejected: both are still there
C23_Witness ==
    /\ pc.stage = "failed"
    /\ error = "QueryError"
    /\ ~issued[Len(issued)].ok
    /\ issued[Len(issued)].phase = 2
    /\ CreatedDatabases # {}
    /\ CreatedRoles # {}
    /\ CreatedDatabases \subseteq catalog.dbs
    /\ CreatedRoles \subseteq catalog.roles

\* connect() calls made so far
Connects == {k \in 1..Len(calls) : calls[k].op = "connect"}

\* every existence check of the run answered false
NothingPreExisted ==
    \A k \in 1..Len(issued) : IsCheckOp(issued[k].stmt.op) => ~issued[k].exists

\* C24: a run of PT_bootstrap_v2.ts whose secrets resolve, in which no driver
\* call fails and every existence check answers false, has at its end: with
\* a valid CDC secret configured three connections (admin, target database,
\* target database) and 22 statements, 6 + 12 + 4; with CDC_USER_SECRET not
\* configured two connections and 16 statements, 4 + 12.
C24_PTStatementCounts ==
    (/\ variant = "PT_bootstrap_v2"
     /\ Terminated /\ RequiredSecretsValid /\ NoDriverFault /\ NothingPreExisted
     /\ (~CdcConfigured \/ secrets.cdc = "valid")) =>
        IF CdcConfigured
        THEN /\ Cardinality(Connects) = 3
             /\ Len(issued) = 22
             /\ Len(IssuedIn(1)) = 6 /\ Len(IssuedIn(2)) = 12 /\ Len(IssuedIn(3)) = 4
        ELSE /\ Cardinality(Connects) = 2
             /\ Len(issued) = 16
             /\ Len(IssuedIn(1)) = 4 /\ Len(IssuedIn(2)) = 12

IsExtensionOp(op) == op \in {"CreateExtensionPgTrgm", "CreateExtensionIntarray"}

\* C25: in every variant, a CREATE EXTENSION ... SCHEMA <schema> issued in
\* the service-grant phase is preceded in that phase by a CREATE SCHEMA IF
\* NOT EXISTS of the same schema that completed.
C25_SchemaBeforeExtension ==
    \A k \in 1..Len(issued) :
        (issued[k].phase = 2 /\ IsExtensionOp(issued[k].stmt.op)) =>
            \E j \in 1..(k - 1) :
                /\ issued[j].phase = 2
                /\ issued[j].ok
                /\ issued[j].stmt.op = "CreateSchema"
                /\ issued[j].stmt.args[1] = issued[k].stmt.args[1]

\* the statements of the service-grant phase that grant to the service role,
\* and those that revoke from PUBLIC
IsServiceGrantOp(op) == op \in {"GrantConnect", "GrantCreate", "GrantUsageCreateSchema",
                                "AlterDefaultPrivileges", "GrantAllPrivileges"}
IsRevokeOp(op) == op \in {"RevokeCreatePublic", "RevokeAllPublic"}

\* the owner statement, once issued in the service-grant phase, is the last
\* statement of that phase and follows both revocations
OwnerLastAfterRevokes ==
    \A k \in 1..Len(IssuedIn(2)) :
        IssuedIn(2)[k].stmt.op = "AlterDatabaseOwner" =>
            /\ k = Len(IssuedIn(2))
            /\ \E i, j \in 1..(k - 1) : /\ IssuedIn(2)[i].stmt.op = "RevokeCreatePublic"
                                        /\ IssuedIn(2)[j].stmt.op = "RevokeAllPublic"

\* C26 as stated: in the service-grant phase every grant to the service role
\* is issued before both revocations from PUBLIC, and both revocations before
\* ALTER DATABASE OWNER, the last statement of the phase.
C26_GrantsBeforeRevokes ==
    /\ \A j, k \in 1..Len(IssuedIn(2)) :
           (IsServiceGrantOp(IssuedIn(2)[j].stmt.op) /\ IsRevokeOp(IssuedIn(2)[k].stmt.op))
               => j < k
    /\ OwnerLastAfterRevokes

\* where a statement stands in the service-grant phase
Stage(op) ==
    CASE op \in {"GrantConnect", "GrantCreate"} -> 1
      [] op = "RevokeCreatePublic" -> 2
      [] op = "RevokeAllPublic" -> 3
      [] op \in {"GrantUsageCreateSchema", "AlterDefaultPrivileges", "GrantAllPrivileges"} -> 4
      [] op = "AlterDatabaseOwner" -> 5
      [] OTHER -> 0

\* C26 amended: in the service-grant phase GRANT CONNECT and GRANT CREATE ON
\* DATABASE are issued before the two revocations from PUBLIC; REVOKE CREATE
\* ON SCHEMA public precedes REVOKE ALL ON DATABASE; GRANT USAGE, CREATE ON
\* SCHEMA, ALTER DEFAULT PRIVILEGES and GRANT ALL PRIVILEGES on DATABASE are
\* issued after both revocations; ALTER DATABASE OWNER follows all of them
\* and is the last statement of the phase.
C26_RevokesBetweenGrants ==
    /\ \A j, k \in 1..Len(IssuedIn(2)) :
           (j < k /\ Stage(IssuedIn(2)[j].stmt.op) > 0 /\ Stage(IssuedIn(2)[k].stmt.op) > 0)
               => Stage(IssuedIn(2)[j].stmt.op) <= Stage(IssuedIn(2)[k].stmt.op)
    /\ OwnerLastAfterRevokes
    /\ (EndedIn(2) # {} /\ \A k \in 1..Len(IssuedIn(2)) : IssuedIn(2)[k].ok) =>
           \A op \in {"GrantConnect", "GrantCreate", "RevokeCreatePublic", "RevokeAllPublic",
                      "GrantUsageCreateSchema", "AlterDefaultPrivileges",
                      "GrantAllPrivileges", "AlterDatabaseOwner"} :
               \E k \in 1..Len(IssuedIn(2)) : IssuedIn(2)[k].stmt.op = op

\* the service-grant phase completed: the schema grant came after the
\* revocations, the owner statement last
C26_Witness ==
    /\ EndedIn(2) # {}
    /\ Len(IssuedIn(2)) > 2
    /\ IssuedIn(2)[Len(IssuedIn(2))].stmt.op = "AlterDatabaseOwner"
    /\ IssuedIn(2)[Len(IssuedIn(2))].ok
    /\ \E j, k \in 1..Len(IssuedIn(2)) :
           /\ j < k
           /\ IssuedIn(2)[j].stmt.op = "RevokeAllPublic"
           /\ IssuedIn(2)[k].stmt.op = "GrantUsageCreateSchema"

\* the existence check st of phase i answered true
AnsweredTrue(i, st) ==
    \E k \in 1..Len(issued) : issued[k].phase = i /\ issued[k].stmt = st /\ issued[k].exists

\* the statements phase i has to issue: all of its list, but for a creation
\* whose check answered true
Expected(i) ==
    LET body == Phases[i].body
        kept == SelectSeq([j \in 1..Len(body) |-> j],
                          LAMBDA j : body[j].kind # "create"
                                     \/ ~AnsweredTrue(i, body[j - 1].stmt))
    IN  [k \in 1..Len(kept) |-> body[kept[k]].stmt]

Opened ==
    LET c == SelectSeq(calls, LAMBDA e : e.op = "connect")
    IN  [k \in 1..Len(c) |-> <<c[k].handle, c[k].database>>]

IsRoleChangeOp(op) == op \in {"CreateUser", "AlterUserPassword", "AlterUserReplication",
                              "AlterUser", "AlterRole"}

Passwords == {MasterPassword, ServicePassword, CdcPassword}

SecretOrder == <<"MASTER_USER_SECRET", "APP_USER_SECRET", "CDC_USER_SECRET">>

\* C30: the lookups of a run are a prefix of master, service, CDC (so none is
\* made twice), once a connection has been opened the run is past its lookups
\* with master and service resolved, and the CDC lookup is made only when
\* CDC_USER_SECRET is configured.
C30_SecretsInOrderBeforeConnect ==
    /\ IsPrefix(lookups, SecretOrder)
    /\ calls # <<>> => (pc.stage \notin {"master", "service", "cdc"}
                        /\ Len(lookups) >= 2)
    /\ ~CdcConfigured => \A i \in 1..Len(lookups) : lookups[i] # "CDC_USER_SECRET"

\* C31: a deployment that leaves CDC_USER_SECRET unset is not rejected when
\* the module loads its environment through validators(), and the handler
\* entered after it issues nothing for a CDC role.
C31_CdcSecretOptional ==
    ~CdcConfigured =>
        /\ error # "EnvError"
        /\ \A k \in 1..Len(issued) : issued[k].phase < 3

\* no statement of a phase's list is issued a second time
IssuedAtMostOnce ==
    \A j, k \in 1..Len(issued) :
        (issued[j].phase = issued[k].phase /\ issued[j].step = issued[k].step) => j = k

WithinRunBounds ==
    /\ IssuedAtMostOnce
    /\ Len(issued) <= 22
    /\ Cardinality(Connects) <= 4

\* C32: when every awaited call eventually returns or throws, the run
\* eventually returns a result or rejects, and all along it has issued each
\* statement of its lists at most once, at most 22 statements, on at most 4
\* connections.
C32_TerminatesWithinBounds == (<>Terminated) /\ [](WithinRunBounds)

\* the grant-phase statements whose first argument is a database
NamesDatabase(op) == op \in {"GrantConnect", "GrantCreate", "RevokeAllPublic",
                             "GrantAllPrivileges", "AlterDatabaseOwner"}

\* the databases whose existence was checked on an admin connection before
\* statement k
CheckedBefore(k) ==
    {issued[j].stmt.args[1] : j \in {i \in 1..(k - 1) :
        /\ issued[i].stmt.op = "SelectDatabaseExists"
        /\ issued[i].handle \in AdminHandles}}

\* C33: in every variant and configuration, a grant-phase statement that
\* names a database is issued on a connection whose target database is the
\* one it names, and that database was checked on an admin connection before.
C33_GrantsNameConnectedDatabase ==
    \A k \in 1..Len(issued) :
        NamesDatabase(issued[k].stmt.op) =>
            /\ issued[k].stmt.args[1] = Interp(Phases[issued[k].phase].database)
            /\ issued[k].stmt.args[1] \in CheckedBefore(k)

\* the catalog a single run in which nothing fails reaches from cat
AfterCleanRun(cat) == [dbs   |-> cat.dbs \cup EnsuredBy("CreateDatabase"),
                       roles |-> cat.roles \cup EnsuredBy("CreateUser")]

LastOutcome == previous[Len(previous)]

\* C34: a run that follows a run that failed at a driver call (a
\* statement, or the connect() or end() around it), sees the catalog that
\* run left and has no driver call fail, returns, and the catalog then equals
\* the one a single run without failure reaches from the original catalog.
\* The catalog is the original one and what the two runs created, so the two
\* are equal exactly when it holds everything a run without failure provides
\* for and neither run created anything else.
C34_RecoversAfterFailedStatement ==
    (/\ previous # <<>>
     /\ LastOutcome.fault
     /\ ~LastOutcome.returned
     /\ Terminated
     /\ NoDriverFault) =>
        /\ pc.stage = "done"
        /\ catalog = AfterCleanRun(catalog)
        /\ LastOutcome.strays = {}
        /\ Strays = {}

\* C36: in PT_bootstrap_v2.ts no statement is built from an identifier that
\* nothing binds, and a run whose secrets resolve and in which no driver call
\* fails goes from the database check through the check of the service
\* secret's username into the service-grant phase.
C36_PTIdentifiersBound ==
    variant = "PT_bootstrap_v2" =>
        /\ error # "ReferenceError"
        /\ (Terminated /\ SecretStepsComplete /\ NoDriverFault) =>
               /\ \E k \in 1..Len(issued) :
                      issued[k].stmt = Stmt("SelectRoleExists", <<serviceSecret.username>>)
               /\ \E k \in 1..Len(issued) : issued[k].phase = 2

\* C35: with two invocations interleaved at every await, neither issues
\* CREATE DATABASE or CREATE USER for a name the catalog holds at the moment
\* the statement executes.
C35_NoCreateOfExisting ==
    /\ ~other.raced
    /\ \A k \in 1..Len(issued) : ~issued[k].present

====
